---- MODULE Spec2Model ----
(***************************************************************************)
(* Weekly task board of src/src/components/WeeklyPlanner.svelte: the       *)
(* bucket collections `days[i].tasks`, the asynchronous handlers that      *)
(* talk to the REST store (onMount, addTask, deleteTask, toggleTask,       *)
(* moveTask, saveTaskEdit) and the store they talk to.                     *)
(*                                                                         *)
(* Task objects live in a heap and the buckets hold references, because    *)
(* the handlers capture object references (`task`, `taskObj`) before an    *)
(* await and use them after it, while moveTask and onMount put fresh       *)
(* copies into the buckets.                                                *)
(***************************************************************************)
EXTENDS Integers, Sequences, FiniteSets, Bags, TLC

\* ------------------------------------------------------------------ bounds
\* Number of buckets of the board (the program has eight, lines 43-52).
NumDays == 2
\* Number of calls of addTask, deleteTask, toggleTask, moveTask and
\* saveTaskEdit the user makes in one run.
MaxOps == 1
\* The same, in the runs that let requests on one task overlap.
MaxRaceOps == 3

Days == 1..NumDays

\* ----------------------------------------------------------------- strings
\* A string is a sequence of characters.
Space == " "
EmptyStr == << >>

\* Texts a user can type into the "new task" input or the edit input.
InputTexts == { EmptyStr, <<Space>>, <<Space, "b", Space>> }

\* Texts of the tasks the store holds before the page is opened.
StoredTexts == { <<"a">> }

RECURSIVE TrimStart(_)
TrimStart(s) ==
    IF s # EmptyStr /\ Head(s) = Space THEN TrimStart(Tail(s)) ELSE s

RECURSIVE TrimEnd(_)
TrimEnd(s) ==
    IF s # EmptyStr /\ s[Len(s)] = Space
    THEN TrimEnd(SubSeq(s, 1, Len(s) - 1))
    ELSE s

\* String.prototype.trim
Trim(s) == TrimEnd(TrimStart(s))

DigitChars == <<"0", "1", "2", "3", "4", "5", "6", "7", "8", "9">>

\* Number.prototype.toString, decimal
RECURSIVE NumToString(_)
NumToString(n) ==
    IF n < 10
    THEN <<DigitChars[n + 1]>>
    ELSE NumToString(n \div 10) \o <<DigitChars[(n % 10) + 1]>>

\* crypto.randomUUID(): the k-th identifier generated; never a decimal number.
RandomUUID(k) == <<"u">> \o NumToString(k)

\* Boolean(row.completed) for a row whose completed is 0/1
ToBoolean(v) == v # 0

\* ------------------------------------------------------------------- state
VARIABLES
    heap,       \* the Task objects ever built; a reference is an index
    days,       \* days[d].tasks: the references of bucket d, in order
    mounted,    \* onMount has started
    fetched,    \* fetched[d]: how onMount's fetch of bucket d has resolved
    reqs,       \* bag of the fetch calls awaited by a handler
    store,      \* the remote store: store[k] is the task with id k
    budget,     \* number of handler calls the user may still make
    ev,         \* the last step: which handler ran, on which call
    touchStartX,    \* where the last gesture started (lines 58-59)
    touchStartY,
    isSwiping,      \* the gesture is locked horizontal (line 60)
    timers,         \* bag of the setTimeout callbacks not yet run (line 363)
    touching        \* e.touches: the fingers on the page, the oldest first,
                    \* each with the task element it landed on

vars == <<heap, days, mounted, fetched, reqs, store, budget, ev,
          touchStartX, touchStartY, isSwiping, timers, touching>>

\* The state of the swipe handling.
gesture == <<touchStartX, touchStartY, isSwiping, timers, touching>>

\* No finger is on the page.
NoTouch == << >>

\* A Touch of e.touches, with the element it targets: the listeners of the
\* task o rendered in bucket d (lines 484-486).
Touch(d, o, x, y) == [day |-> d, obj |-> o, clientX |-> x, clientY |-> y]

\* The fingers on the page that landed on task o of bucket d.
TouchesOn(d, o) ==
    { k \in 1..Len(touching) : touching[k].day = d /\ touching[k].obj = o }

\* A sequence without its k-th element.
RemoveAt(s, k) == [i \in 1..(Len(s) - 1) |-> IF i < k THEN s[i] ELSE s[i + 1]]

\* Task (lines 11-21), the fields the handlers read and write.  swipeX is
\* kept in fifths of a pixel, the resistance factor being 0.2.
Task(id, description, completed) ==
    [id |-> id, description |-> description, completed |-> completed,
     isEditing |-> FALSE, editingText |-> EmptyStr,
     swipeX |-> 0, isSwipeActive |-> FALSE, showMoveOptions |-> FALSE]

\* A fetch call and what its handler captured before the await.
\*   kind   which handler issued it
\*   day    dayIndex / fromDayIndex / the loop's i
\*   obj    the captured Task reference (task, taskObj), 0 when none
\*   id     the task id in the URL
\*   to     toDayIndex, 0 when none
\*   text   desc / newText
\*   val    newCompleted
\*   status "sent", then "ok" | "rejected" | "neterr"; "none": no call made
\*   rows   the GET payload;  newId: the id in the POST answer
Request(kind, day, obj, id, to, text, val) ==
    [kind |-> kind, day |-> day, obj |-> obj, id |-> id, to |-> to,
     text |-> text, val |-> val, status |-> "sent",
     rows |-> << >>, newId |-> 0]

NoCall(kind, day, obj, id, to, text) ==
    [Request(kind, day, obj, id, to, text, FALSE) EXCEPT !.status = "none"]

\* What a step leaves in ev: the handler that ran and the call it ran on.
Event(op, r) ==
    [op |-> op, kind |-> r.kind, status |-> r.status, day |-> r.day,
     to |-> r.to, id |-> r.id, text |-> r.text]

\* The event of a step of the store, which runs no handler of the page.
StoreStep == Event("store", NoCall("none", 0, 0, EmptyStr, 0, EmptyStr))

Pending == BagToSet(reqs)

\* ------------------------------------------------------------------- store
\* The REST store of section 6 of the specification: one record per task
\* ever created, its id being its index.
StoreTask(day, text, completed) ==
    [day |-> day, text |-> text, completed |-> completed, deleted |-> FALSE]

\* What the store may hold before the page is opened: nothing, or one task.
InitStores ==
    { << >> } \cup { << StoreTask(d, t, 0) >> : d \in Days, t \in StoredTexts }

\* The id a URL /api/tasks/<id> names, 0 when the store has no such task.
StoreLookup(s, id) ==
    IF \E k \in 1..Len(s) : NumToString(k) = id /\ ~s[k].deleted
    THEN CHOOSE k \in 1..Len(s) : NumToString(k) = id
    ELSE 0

\* GET /api/tasks?day=<day>: the rows of that day, in id order.
RECURSIVE StoreRows(_, _, _)
StoreRows(s, day, k) ==
    IF k > Len(s) THEN << >>
    ELSE (IF s[k].day = day /\ ~s[k].deleted
          THEN << [id |-> k, text |-> s[k].text, completed |-> s[k].completed] >>
          ELSE << >>) \o StoreRows(s, day, k + 1)

\* The store after it has accepted request r.
StoreApply(s, r) ==
    LET k == StoreLookup(s, r.id) IN
    CASE r.kind = "create" -> Append(s, StoreTask(r.day, r.text, 0))
      [] r.kind = "delete" /\ k # 0 -> [s EXCEPT ![k].deleted = TRUE]
      [] r.kind = "toggle" /\ k # 0 ->
            [s EXCEPT ![k].completed = IF r.val THEN 1 ELSE 0]
      [] r.kind = "move" /\ k # 0 -> [s EXCEPT ![k].day = r.to]
      [] r.kind = "rename" /\ k # 0 -> [s EXCEPT ![k].text = r.text]
      [] OTHER -> s

\* The answer to an accepted request.
StoreAnswer(s, r) ==
    [r EXCEPT !.status = "ok",
              !.rows = IF r.kind = "load" THEN StoreRows(s, r.day, 1) ELSE << >>,
              !.newId = IF r.kind = "create" THEN Len(s) + 1 ELSE 0]

Replace(r, q) == (reqs (-) SetToBag({r})) (+) SetToBag({q})

\* Whether the store has what the request is about: a PUT or DELETE of a
\* task the store does not hold is answered with a non-success status.
StoreKnows(s, r) == r.kind \in {"load", "create"} \/ StoreLookup(s, r.id) # 0

\* The store accepts a request: it applies it and answers with success.
StoreAccept(r) ==
    /\ r.status = "sent"
    /\ StoreKnows(store, r)
    /\ store' = StoreApply(store, r)
    /\ reqs' = Replace(r, StoreAnswer(store, r))
    /\ ev' = StoreStep
    /\ UNCHANGED <<heap, days, mounted, fetched, budget, gesture>>

\* The store answers with a non-success status and changes nothing.
StoreReject(r) ==
    /\ r.status = "sent"
    /\ reqs' = Replace(r, [r EXCEPT !.status = "rejected"])
    /\ ev' = StoreStep
    /\ UNCHANGED <<heap, days, mounted, fetched, store, budget, gesture>>

\* The request does not reach the store: fetch will throw.
NetworkError(r) ==
    /\ r.status = "sent"
    /\ reqs' = Replace(r, [r EXCEPT !.status = "neterr"])
    /\ ev' = StoreStep
    /\ UNCHANGED <<heap, days, mounted, fetched, store, budget, gesture>>


\* ------------------------------------------------------------ the handlers
Send(r) == reqs' = reqs (+) SetToBag({r})

Done(r) == reqs' = reqs (-) SetToBag({r})

\* The ids of the tasks of a bucket, in order.
IdsOf(h, tasks) == [i \in 1..Len(tasks) |-> h[tasks[i]].id]

\* tasks.filter((t) => t.id !== taskId)
FilterOut(h, tasks, taskId) ==
    SelectSeq(tasks, LAMBDA o : h[o].id # taskId)

\* tasks.find((t) => t.id === taskId): the first match, 0 for undefined
Find(h, tasks, taskId) ==
    IF \E i \in 1..Len(tasks) : h[tasks[i]].id = taskId
    THEN tasks[CHOOSE i \in 1..Len(tasks) :
                 /\ h[tasks[i]].id = taskId
                 /\ \A j \in 1..(i - 1) : h[tasks[j]].id # taskId]
    ELSE 0

\* row.id ? row.id.toString() : crypto.randomUUID()   (lines 84, 125)
\* An absent id is 0; k numbers the identifiers generated.
IdOrUUID(id, k) == IF id # 0 THEN NumToString(id) ELSE RandomUUID(k)

\* The Task built from a row of the GET payload (lines 83-93).
RowToTask(row, k) ==
    Task(IdOrUUID(row.id, k), row.text, ToBoolean(row.completed))

\* The Task pushed by addTask (lines 127-137).
CreatedTask(r, k) == Task(IdOrUUID(r.newId, k), r.text, FALSE)

\* The Task pushed by moveTask (lines 216-226): a copy of the captured one.
MovedTask(t) == Task(t.id, t.description, t.completed)

\* The references a bucket holds or a pending handler, a timer callback or
\* the listeners of the touched element have captured.
Reachable(dys, rq) ==
    UNION { { dys[d].tasks[i] : i \in 1..Len(dys[d].tasks) } : d \in Days }
        \cup { r.obj : r \in BagToSet(rq) }
        \cup { t.obj : t \in BagToSet(timers) }
        \cup { touching[k].obj : k \in 1..Len(touching) }

\* A Task no bucket holds and no pending handler has captured can be read by
\* nothing any more: the heap keeps a blank in its place.
Collected == Task(EmptyStr, EmptyStr, FALSE)

Collect(h, dys, rq) ==
    [o \in 1..Len(h) |-> IF o \in Reachable(dys, rq) THEN h[o] ELSE Collected]

\* The fetch of one bucket by onMount's loop (line 74).
LoadRequest(i) == Request("load", i, 0, EmptyStr, 0, EmptyStr, FALSE)

\* onMount (lines 70-74): the loop starts and awaits the first fetch.
OnMount ==
    /\ ~mounted
    /\ mounted' = TRUE
    /\ Send(LoadRequest(1))
    /\ ev' = Event("onMount", LoadRequest(1))
    /\ UNCHANGED <<heap, days, fetched, store, budget, gesture>>

\* onMount that never assigns days[i].tasks.
LoadedTasksKept(r, fresh) == days[r.day].tasks

\* The tasks of bucket r.day after onMount's fetch r has resolved, given the
\* references `fresh` of the Tasks built from the payload (lines 75-98).
LoadedTasks(r, fresh) ==
    CASE r.status = "ok" -> fresh
      [] r.status = "rejected" -> days[r.day].tasks
      [] r.status = "neterr" -> << >>

\* onMount (lines 75-99): the awaited fetch of bucket r.day resolves, the
\* bucket is set, and the loop goes on to await the next bucket's fetch.
LoadResolve(r) ==
    /\ r.kind = "load"
    /\ r.status \in {"ok", "rejected", "neterr"}
    /\ LET n     == IF r.status = "ok" THEN Len(r.rows) ELSE 0
           fresh == [j \in 1..n |-> Len(heap) + j]
           built == [j \in 1..n |-> RowToTask(r.rows[j], Len(heap) + j)]
       IN  /\ days' = [days EXCEPT ![r.day].tasks = LoadedTasks(r, fresh)]
           /\ reqs' = IF r.day < NumDays
                      THEN Replace(r, LoadRequest(r.day + 1))
                      ELSE reqs (-) SetToBag({r})
           /\ heap' = Collect(heap \o built, days', reqs')
    /\ fetched' = [fetched EXCEPT
                      ![r.day] = IF r.status = "ok" THEN "ok" ELSE "failed"]
    /\ ev' = Event("resolve", r)
    /\ UNCHANGED <<mounted, store, budget, gesture>>

\* The tasks the page shows: <<d, o>> for each reference o in bucket d.  The
\* handlers of a task are bound to its bucket's index and to its object.
Rendered ==
    UNION { { <<d, days[d].tasks[i]>> : i \in 1..Len(days[d].tasks) } : d \in Days }

\* A task's edit input is open and its text has not been submitted.  The
\* input takes the focus when it appears (use:focus, line 6) and a click
\* elsewhere makes it lose the focus, which runs saveTaskEdit (on:blur): the
\* other handlers of the page run only when no such input is open.
EditOpen ==
    \E p \in Rendered :
        /\ heap[p[2]].isEditing
        /\ ~\E r \in Pending : r.kind = "rename" /\ r.obj = p[2]

\* ---- addTask (lines 108-145)
\* addTask with unshift in the place of push.
AddedTasksInFront(r, tasks, ref) ==
    IF r.status = "ok" THEN <<ref>> \o tasks ELSE tasks

\* The bucket after the POST has resolved (lines 123-141).
AddedTasks(r, tasks, ref) ==
    IF r.status = "ok" THEN Append(tasks, ref) ELSE tasks

\* addTask runs with txt in the bucket's input, days[d].newTaskDescription
\* (lines 108-121): it returns at once when the trimmed text is empty.
AddTask(d, txt) ==
    LET desc == Trim(txt)
        r    == Request("create", d, 0, EmptyStr, 0, desc, FALSE)
    IN  /\ mounted
        /\ ~EditOpen
        /\ budget > 0
        /\ budget' = budget - 1
        /\ IF desc = EmptyStr
           THEN /\ ev' = Event("addTask", NoCall("create", d, 0, EmptyStr, 0, txt))
                /\ UNCHANGED reqs
           ELSE /\ Send(r)
                /\ ev' = Event("addTask", r)
        /\ UNCHANGED <<heap, days, mounted, fetched, store, gesture>>

\* The POST resolves (lines 123-144).
AddResolve(r) ==
    /\ r.kind = "create"
    /\ r.status \in {"ok", "rejected", "neterr"}
    /\ LET ref == Len(heap) + 1 IN
       /\ days' = [days EXCEPT ![r.day].tasks = AddedTasks(r, @, ref)]
       /\ Done(r)
       /\ heap' = IF r.status = "ok"
                  THEN Append(heap, CreatedTask(r, ref))
                  ELSE heap
    /\ ev' = Event("resolve", r)
    /\ UNCHANGED <<mounted, fetched, store, budget, gesture>>

\* ---- deleteTask (lines 151-164)
\* deleteTask with the filter moved out of the `if (res.ok)`.
DeletedTasksAnyStatus(r, tasks) == FilterOut(heap, tasks, r.id)

\* The bucket after the DELETE has resolved (lines 154-160).
DeletedTasks(r, tasks) ==
    IF r.status = "ok" THEN FilterOut(heap, tasks, r.id) ELSE tasks

\* The user clicks the archive button of a rendered task (lines 151-153).
DeleteTask(d, o) ==
    LET r == Request("delete", d, 0, heap[o].id, 0, EmptyStr, FALSE)
    IN  /\ <<d, o>> \in Rendered
        /\ ~heap[o].isEditing
        /\ ~EditOpen
        /\ budget > 0
        /\ Send(r)
        /\ budget' = budget - 1
        /\ ev' = Event("deleteTask", r)
        /\ UNCHANGED <<heap, days, mounted, fetched, store, gesture>>

\* The DELETE resolves (lines 154-163).
DeleteResolve(r) ==
    /\ r.kind = "delete"
    /\ r.status \in {"ok", "rejected", "neterr"}
    /\ days' = [days EXCEPT ![r.day].tasks = DeletedTasks(r, @)]
    /\ Done(r)
    /\ heap' = Collect(heap, days', reqs')
    /\ ev' = Event("resolve", r)
    /\ UNCHANGED <<mounted, fetched, store, budget, gesture>>

\* ---- toggleTask (lines 170-193)
\* The captured Task after the PUT has resolved (lines 185-189).
ToggledTask(r, t) ==
    IF r.status = "ok" THEN [t EXCEPT !.completed = r.val] ELSE t

\* The user clicks the checkbox of a rendered task (lines 170-183): the
\* Task is looked up by id in the bucket and captured.
ToggleTask(d, o) ==
    LET taskObj == Find(heap, days[d].tasks, heap[o].id)
        r == Request("toggle", d, taskObj, heap[o].id, 0, EmptyStr,
                     ~heap[taskObj].completed)
    IN  /\ <<d, o>> \in Rendered
        /\ taskObj # 0
        /\ ~EditOpen
        /\ budget > 0
        /\ Send(r)
        /\ budget' = budget - 1
        /\ ev' = Event("toggleTask", r)
        /\ UNCHANGED <<heap, days, mounted, fetched, store, gesture>>

\* The PUT resolves (lines 185-192).
ToggleResolve(r) ==
    /\ r.kind = "toggle"
    /\ r.status \in {"ok", "rejected", "neterr"}
    /\ Done(r)
    /\ heap' = Collect([heap EXCEPT ![r.obj] = ToggledTask(r, @)], days, reqs')
    /\ ev' = Event("resolve", r)
    /\ UNCHANGED <<days, mounted, fetched, store, budget, gesture>>

\* ---- moveTask (lines 199-233)
\* The source bucket after the PUT has resolved (lines 211-213).
MovedFrom(r, tasks) ==
    IF r.status = "ok" THEN FilterOut(heap, tasks, heap[r.obj].id) ELSE tasks

\* The destination bucket after the PUT has resolved (lines 215-226).
MovedTo(r, tasks, ref) ==
    IF r.status = "ok" THEN Append(tasks, ref) ELSE tasks

\* moveTask without its first line.
MoveIsNeverNoOp(fromDayIndex, toDayIndex) == FALSE

\* Whether moveTask returns at once (line 200).
MoveIsNoOp(fromDayIndex, toDayIndex) == fromDayIndex = toDayIndex

\* moveTask is called for a rendered task and a bucket (lines 199-209).
MoveTask(d, o, to) ==
    LET r == Request("move", d, o, heap[o].id, to, EmptyStr, FALSE)
    IN  /\ <<d, o>> \in Rendered
        /\ ~EditOpen
        /\ budget > 0
        /\ budget' = budget - 1
        /\ IF MoveIsNoOp(d, to)
           THEN /\ ev' = Event("moveTask", [r EXCEPT !.status = "none"])
                /\ UNCHANGED reqs
           ELSE /\ Send(r)
                /\ ev' = Event("moveTask", r)
        /\ UNCHANGED <<heap, days, mounted, fetched, store, gesture>>

\* The PUT resolves (lines 211-232).
MoveResolve(r) ==
    /\ r.kind = "move"
    /\ r.status \in {"ok", "rejected", "neterr"}
    /\ LET ref == Len(heap) + 1 IN
       /\ days' = [days EXCEPT ![r.day].tasks = MovedFrom(r, @),
                               ![r.to].tasks = MovedTo(r, @, ref)]
       /\ Done(r)
       /\ heap' = IF r.status = "ok"
                  THEN Collect(Append(heap, MovedTask(heap[r.obj])), days', reqs')
                  ELSE Collect(heap, days', reqs')
    /\ ev' = Event("resolve", r)
    /\ UNCHANGED <<mounted, fetched, store, budget, gesture>>


\* ---- editing (lines 238-283)
\* The user clicks the text of a rendered task (lines 238-241).
StartEditingTask(d, o) ==
    /\ <<d, o>> \in Rendered
    /\ ~heap[o].isEditing
    /\ ~EditOpen
    /\ heap' = [heap EXCEPT ![o].isEditing = TRUE,
                            ![o].editingText = heap[o].description]
    /\ ev' = Event("startEditingTask",
                   NoCall("rename", d, o, heap[o].id, 0, EmptyStr))
    /\ UNCHANGED <<days, mounted, fetched, reqs, store, budget, gesture>>

\* saveTaskEdit with the test `!task.editingText`, without the trim.
EditIsEmptyUntrimmed(txt) == txt = EmptyStr

\* Whether saveTaskEdit rejects the text without a request (line 248).
EditIsEmpty(txt) == Trim(txt) = EmptyStr

\* The captured Task after the PUT has resolved (lines 264-274).
RenamedTask(r, t) ==
    [t EXCEPT !.description = IF r.status = "ok" THEN r.text ELSE @,
              !.isEditing = FALSE,
              !.editingText = EmptyStr]

\* The edit input holds txt and the user presses Enter or leaves the input
\* (lines 247-262).
SaveTaskEdit(d, o, txt) ==
    LET r == Request("rename", d, o, heap[o].id, 0, Trim(txt), FALSE)
    IN  /\ <<d, o>> \in Rendered
        /\ heap[o].isEditing
        /\ budget > 0
        /\ budget' = budget - 1
        /\ IF EditIsEmpty(txt)
           THEN /\ heap' = [heap EXCEPT ![o].isEditing = FALSE,
                                        ![o].editingText = EmptyStr]
                /\ ev' = Event("saveTaskEdit",
                               NoCall("rename", d, o, heap[o].id, 0, txt))
                /\ UNCHANGED reqs
           ELSE /\ heap' = [heap EXCEPT ![o].editingText = txt]
                /\ Send(r)
                /\ ev' = Event("saveTaskEdit", r)
        /\ UNCHANGED <<days, mounted, fetched, store, gesture>>

\* The PUT resolves (lines 264-274).
RenameResolve(r) ==
    /\ r.kind = "rename"
    /\ r.status \in {"ok", "rejected", "neterr"}
    /\ Done(r)
    /\ heap' = Collect([heap EXCEPT ![r.obj] = RenamedTask(r, @)], days, reqs')
    /\ ev' = Event("resolve", r)
    /\ UNCHANGED <<days, mounted, fetched, store, budget, gesture>>

\* ---- swipe gestures (lines 57-63, 310-386)
\* Distance to trigger delete (line 62).
deleteThreshold == 120
\* Distance to trigger move, negative for a left swipe (line 63).
moveThreshold == -80
\* swipeX is kept in fifths of a pixel: 1 / 0.2 (lines 341, 343).
Fifth == 5
\* The offset of a task animated off the screen (line 361).
OffScreen == 300
\* The delay of the delete after the end of the gesture, in ms (line 365).
GraceDelay == 200
\* The horizontal displacement a move must exceed to lock (line 329).
LockDistance == 10
\* The time that passes in one step of the clock, in ms.
TickMs == 100

\* Math.abs
Abs(n) == IF n < 0 THEN -n ELSE n

\* The fingers the page is touched with at once.
MaxTouches == 2

\* touch.clientX and touch.clientY of the touchstart events.
StartXs == { 200 }
StartYs == { 300 }
\* The displacements of the touchmove events from the start.
DeltaXs == { -130, -120, -80, 5, 11, 120, 130 }
DeltaYs == { 0, 20 }
MoveXs == { x + dx : x \in StartXs, dx \in DeltaXs }
MoveYs == { y + dy : y \in StartYs, dy \in DeltaYs }

\* What a gesture step leaves in ev: the handler, the task it ran on and the
\* displacement deltaX, deltaY it computed.
GestureEvent(op, d, o, deltaX, deltaY) ==
    [op |-> op, kind |-> "gesture", status |-> "none", day |-> d, to |-> 0,
     id |-> heap[o].id, text |-> EmptyStr, obj |-> o,
     deltaX |-> deltaX, deltaY |-> deltaY]

\* The move-options overlay of some task covers the page (lines 627-631).
PickerOpen == \E p \in Rendered : heap[p[2]].showMoveOptions

\* handleTouchStart (lines 310-318) for a finger landing at (x, y) on a
\* rendered task.  The overlay, when shown, takes the touches of the page.
\* touch is e.touches[0] (line 313): the oldest finger on the page, which is
\* the one landing only when no other is down.
TouchStart(d, o, x, y) ==
    LET touch == touching'[1]
    IN  /\ <<d, o>> \in Rendered
        /\ ~PickerOpen
        /\ budget > 0
        /\ budget' = budget - 1
        /\ touching' = Append(touching, Touch(d, o, x, y))
        /\ IF heap[o].isEditing
           THEN UNCHANGED <<heap, touchStartX, touchStartY, isSwiping>>
           ELSE /\ touchStartX' = touch.clientX
                /\ touchStartY' = touch.clientY
                /\ isSwiping' = FALSE
                /\ heap' = [heap EXCEPT ![o].isSwipeActive = TRUE]
        /\ ev' = GestureEvent("handleTouchStart", d, o, 0, 0)
        /\ UNCHANGED <<days, mounted, fetched, reqs, store, timers>>

\* handleTouchStart for the only finger on the page.
HandleTouchStart(d, o, x, y) ==
    /\ touching = NoTouch
    /\ TouchStart(d, o, x, y)

\* handleTouchStart for a finger landing while others are on the page.
HandleNextTouchStart(d, o, x, y) ==
    /\ touching # NoTouch
    /\ Len(touching) < MaxTouches
    /\ TouchStart(d, o, x, y)

\* Whether the gesture is locked horizontal after a move by (deltaX, deltaY)
\* (lines 328-334).
LocksAlways(swiping, deltaX, deltaY) == TRUE

Locks(swiping, deltaX, deltaY) ==
    \/ swiping
    \/ (Abs(deltaX) > LockDistance /\ Abs(deltaX) > Abs(deltaY))

\* The leftward resistance starting at the move threshold itself.
MoveResistanceAtThreshold == moveThreshold

\* moveThreshold * 1.5 (lines 342-343)
MoveResistance == (moveThreshold * 3) \div 2

\* The offset without the leftward resistance.
ResistedRightOnly(deltaX) ==
    IF deltaX > deleteThreshold
    THEN Fifth * deleteThreshold + (deltaX - deleteThreshold)
    ELSE Fifth * deltaX

\* newX for a displacement deltaX, in fifths (lines 337-344).
Resisted(deltaX) ==
    IF deltaX > deleteThreshold
    THEN Fifth * deleteThreshold + (deltaX - deleteThreshold)
    ELSE IF deltaX < MoveResistance
         THEN Fifth * MoveResistance + (deltaX - MoveResistance)
         ELSE Fifth * deltaX

\* handleTouchMove (lines 320-348): a finger that landed on the task moves
\* to (x, y).  touch is e.touches[0] (line 323), the oldest finger on the
\* page, whichever finger moved.
HandleTouchMove(d, o, x, y) ==
    \E k \in TouchesOn(d, o) :
        LET touch == touching'[1]
            deltaX == touch.clientX - touchStartX
            deltaY == touch.clientY - touchStartY
        IN  /\ touching' = [touching EXCEPT ![k] = Touch(d, o, x, y)]
            /\ IF ~heap[o].isSwipeActive \/ heap[o].isEditing
               THEN UNCHANGED <<heap, isSwiping>>
               ELSE /\ isSwiping' = Locks(isSwiping, deltaX, deltaY)
                    /\ heap' = IF isSwiping'
                               THEN [heap EXCEPT ![o].swipeX = Resisted(deltaX)]
                               ELSE heap
            /\ ev' = GestureEvent("handleTouchMove", d, o, deltaX, deltaY)
            /\ UNCHANGED <<days, mounted, fetched, reqs, store, budget,
                           touchStartX, touchStartY, timers>>

\* setTimeout with no delay.
TimerWithoutDelay(d, o, delay) == [day |-> d, obj |-> o, left |-> 0]

\* The callback handleTouchEnd hands to setTimeout (lines 363-365), with the
\* time left before it may run.
Timer(d, o, delay) == [day |-> d, obj |-> o, left |-> delay]

\* handleTouchEnd with > and < in the place of >= and <=.
OutcomeStrict(swipeDistance) ==
    IF swipeDistance > Fifth * deleteThreshold THEN "delete"
    ELSE IF swipeDistance < Fifth * moveThreshold THEN "move"
    ELSE "snap"

\* What handleTouchEnd does with the final offset (lines 360-374).
Outcome(swipeDistance) ==
    IF swipeDistance >= Fifth * deleteThreshold THEN "delete"
    ELSE IF swipeDistance <= Fifth * moveThreshold THEN "move"
    ELSE "snap"

\* The task after handleTouchEnd (lines 356-374).
EndedTask(t) ==
    CASE Outcome(t.swipeX) = "delete" ->
            [t EXCEPT !.isSwipeActive = FALSE, !.swipeX = Fifth * OffScreen]
      [] Outcome(t.swipeX) = "move" ->
            [t EXCEPT !.isSwipeActive = FALSE, !.showMoveOptions = TRUE,
                      !.swipeX = Fifth * moveThreshold]
      [] OTHER ->
            [t EXCEPT !.isSwipeActive = FALSE, !.swipeX = 0,
                      !.showMoveOptions = FALSE]

\* handleTouchEnd (lines 350-375): the finger leaves the task.
HandleTouchEnd(d, o) ==
    /\ \E k \in TouchesOn(d, o) : touching' = RemoveAt(touching, k)
    /\ IF ~heap[o].isSwipeActive \/ heap[o].isEditing
       THEN UNCHANGED <<heap, isSwiping, timers>>
       ELSE /\ isSwiping' = FALSE
            /\ timers' = IF Outcome(heap[o].swipeX) = "delete"
                         THEN timers (+) SetToBag({Timer(d, o, GraceDelay)})
                         ELSE timers
            /\ heap' = [heap EXCEPT ![o] = EndedTask(@)]
    /\ ev' = GestureEvent("handleTouchEnd", d, o, 0, 0)
    /\ UNCHANGED <<days, mounted, fetched, reqs, store, budget,
                   touchStartX, touchStartY>>

\* Time passes: every callback waiting has TickMs less to wait.
Tick ==
    /\ \E t \in BagToSet(timers) : t.left > 0
    /\ timers' = BagOfAll(LAMBDA t : [t EXCEPT !.left = IF @ > TickMs
                                                         THEN @ - TickMs
                                                         ELSE 0],
                          timers)
    /\ ev' = [StoreStep EXCEPT !.op = "tick"]
    /\ UNCHANGED <<heap, days, mounted, fetched, reqs, store, budget,
                   touchStartX, touchStartY, isSwiping, touching>>

\* The delay of a callback has elapsed and it runs: deleteTask(dayIndex,
\* task.id) sends the DELETE (lines 363-365, 151-153).
TimerFire(t) ==
    LET r == Request("delete", t.day, 0, heap[t.obj].id, 0, EmptyStr, FALSE)
    IN  /\ t.left = 0
        /\ timers' = timers (-) SetToBag({t})
        /\ Send(r)
        /\ ev' = Event("timeout", r)
        /\ UNCHANGED <<heap, days, mounted, fetched, store, budget,
                       touchStartX, touchStartY, isSwiping, touching>>

\* resetTaskSwipe without line 378.
ResetTaskKeepsOffset(t) ==
    [t EXCEPT !.showMoveOptions = FALSE, !.isSwipeActive = FALSE]

\* The task after resetTaskSwipe (lines 377-381).
ResetTask(t) ==
    [t EXCEPT !.swipeX = 0, !.showMoveOptions = FALSE, !.isSwipeActive = FALSE]

\* resetTaskSwipe (lines 377-381), run by a click or touch on the overlay or
\* on its Cancel button (lines 630-631, 658).
ResetTaskSwipe(d, o) ==
    /\ <<d, o>> \in Rendered
    /\ heap[o].showMoveOptions
    /\ heap' = [heap EXCEPT ![o] = ResetTask(@)]
    /\ ev' = GestureEvent("resetTaskSwipe", d, o, 0, 0)
    /\ UNCHANGED <<days, mounted, fetched, reqs, store, budget, gesture>>

\* handleMoveFromSwipe (lines 383-386), run by a click on a bucket of the
\* overlay, which offers the buckets other than the task's (line 644).
HandleMoveFromSwipe(d, o, to) ==
    LET r == Request("move", d, o, heap[o].id, to, EmptyStr, FALSE)
    IN  /\ <<d, o>> \in Rendered
        /\ heap[o].showMoveOptions
        /\ to # d
        /\ heap' = [heap EXCEPT ![o] = ResetTask(@)]
        /\ IF MoveIsNoOp(d, to) THEN UNCHANGED reqs ELSE Send(r)
        /\ ev' = [GestureEvent("handleMoveFromSwipe", d, o, 0, 0)
                     EXCEPT !.to = to]
        /\ UNCHANGED <<days, mounted, fetched, store, budget, gesture>>


\* ------------------------------------------------------------ specification
Init ==
    /\ heap = << >>
    /\ days = [d \in Days |-> [tasks |-> << >>]]
    /\ mounted = FALSE
    /\ fetched = [d \in Days |-> "no"]
    /\ reqs = EmptyBag
    /\ store \in InitStores
    /\ budget = MaxOps
    /\ ev = Event("init", NoCall("none", 0, 0, EmptyStr, 0, EmptyStr))
    /\ touchStartX = 0
    /\ touchStartY = 0
    /\ isSwiping = FALSE
    /\ timers = EmptyBag
    /\ touching = NoTouch

Refs == 1..Len(heap)

Next ==
    \/ OnMount
    \/ \E r \in Pending : StoreAccept(r)
    \/ \E r \in Pending : StoreReject(r)
    \/ \E r \in Pending : NetworkError(r)
    \/ \E r \in Pending : LoadResolve(r)
    \/ \E d \in Days, txt \in InputTexts : AddTask(d, txt)
    \/ \E r \in Pending : AddResolve(r)
    \/ \E d \in Days, o \in Refs : DeleteTask(d, o)
    \/ \E r \in Pending : DeleteResolve(r)
    \/ \E d \in Days, o \in Refs : ToggleTask(d, o)
    \/ \E r \in Pending : ToggleResolve(r)
    \/ \E d \in Days, o \in Refs, to \in Days : MoveTask(d, o, to)
    \/ \E r \in Pending : MoveResolve(r)
    \/ \E d \in Days, o \in Refs : StartEditingTask(d, o)
    \/ \E d \in Days, o \in Refs, txt \in InputTexts : SaveTaskEdit(d, o, txt)
    \/ \E r \in Pending : RenameResolve(r)

Spec == Init /\ [][Next]_vars


\* Runs that start when onMount has loaded, with every fetch successful, a
\* store that holds one task, and in which the user then toggles, renames,
\* moves and deletes: the requests on the task overlap and resolve in any
\* order.
InitLoaded ==
    /\ store \in InitStores \ { << >> }
    /\ heap = << RowToTask(StoreRows(store, store[1].day, 1)[1], 1) >>
    /\ days = [d \in Days |->
                 [tasks |-> IF d = store[1].day THEN << 1 >> ELSE << >>]]
    /\ mounted = TRUE
    /\ fetched = [d \in Days |-> "ok"]
    /\ reqs = EmptyBag
    /\ budget = MaxRaceOps
    /\ ev = Event("resolve", StoreAnswer(store, LoadRequest(NumDays)))
    /\ touchStartX = 0
    /\ touchStartY = 0
    /\ isSwiping = FALSE
    /\ timers = EmptyBag
    /\ touching = NoTouch

NextLoaded ==
    \/ \E r \in Pending : StoreAccept(r)
    \/ \E r \in Pending : StoreReject(r)
    \/ \E r \in Pending : NetworkError(r)
    \/ \E d \in Days, o \in Refs : DeleteTask(d, o)
    \/ \E r \in Pending : DeleteResolve(r)
    \/ \E d \in Days, o \in Refs : ToggleTask(d, o)
    \/ \E r \in Pending : ToggleResolve(r)
    \/ \E d \in Days, o \in Refs, to \in Days : MoveTask(d, o, to)
    \/ \E r \in Pending : MoveResolve(r)
    \/ \E d \in Days, o \in Refs : StartEditingTask(d, o)
    \/ \E d \in Days, o \in Refs, txt \in InputTexts : SaveTaskEdit(d, o, txt)
    \/ \E r \in Pending : RenameResolve(r)

SpecLoaded == InitLoaded /\ [][NextLoaded]_vars

\* Runs from the construction of the page in which the store holds one task
\* and the user toggles, moves and deletes it while onMount is loading.
InitRace ==
    /\ heap = << >>
    /\ days = [d \in Days |-> [tasks |-> << >>]]
    /\ mounted = FALSE
    /\ fetched = [d \in Days |-> "no"]
    /\ reqs = EmptyBag
    /\ store \in InitStores \ { << >> }
    /\ budget = MaxRaceOps
    /\ ev = Event("init", NoCall("none", 0, 0, EmptyStr, 0, EmptyStr))
    /\ touchStartX = 0
    /\ touchStartY = 0
    /\ isSwiping = FALSE
    /\ timers = EmptyBag
    /\ touching = NoTouch

NextRace ==
    \/ OnMount
    \/ \E r \in Pending : StoreAccept(r)
    \/ \E r \in Pending : StoreReject(r)
    \/ \E r \in Pending : NetworkError(r)
    \/ \E r \in Pending : LoadResolve(r)
    \/ \E d \in Days, o \in Refs : DeleteTask(d, o)
    \/ \E r \in Pending : DeleteResolve(r)
    \/ \E d \in Days, o \in Refs : ToggleTask(d, o)
    \/ \E r \in Pending : ToggleResolve(r)
    \/ \E d \in Days, o \in Refs, to \in Days : MoveTask(d, o, to)
    \/ \E r \in Pending : MoveResolve(r)

SpecRace == InitRace /\ [][NextRace]_vars

\* ------------------------------------------------------------------ views
\* What the board shows of a task.
\* The initial load with tasks created meanwhile.
NextLoad ==
    \/ OnMount
    \/ \E r \in Pending : StoreAccept(r)
    \/ \E r \in Pending : StoreReject(r)
    \/ \E r \in Pending : NetworkError(r)
    \/ \E r \in Pending : LoadResolve(r)
    \/ \E d \in Days, txt \in InputTexts : AddTask(d, txt)
    \/ \E r \in Pending : AddResolve(r)

\* A fetch of onMount is answered or fails.
LoadAnswered ==
    \E r \in Pending :
        r.kind = "load" /\ (StoreAccept(r) \/ StoreReject(r) \/ NetworkError(r))

\* onMount runs once the component is mounted, every fetch settles, and the
\* loop goes on when the fetch it awaits has settled.
SpecLoad ==
    /\ Init
    /\ [][NextLoad]_vars
    /\ WF_vars(OnMount)
    /\ WF_vars(LoadAnswered)
    /\ WF_vars(\E r \in Pending : LoadResolve(r))

\* The board after a load in which every fetch succeeded, for the gestures,
\* the edits and the moves and deletes the gestures lead to.
MaxSwipeOps == 2

InitSwipe ==
    /\ store \in InitStores \ { << >> }
    /\ heap = << RowToTask(StoreRows(store, store[1].day, 1)[1], 1) >>
    /\ days = [d \in Days |->
                 [tasks |-> IF d = store[1].day THEN << 1 >> ELSE << >>]]
    /\ mounted = TRUE
    /\ fetched = [d \in Days |-> "ok"]
    /\ reqs = EmptyBag
    /\ budget = MaxSwipeOps
    /\ ev = Event("resolve", StoreAnswer(store, LoadRequest(NumDays)))
    /\ touchStartX = 0
    /\ touchStartY = 0
    /\ isSwiping = FALSE
    /\ timers = EmptyBag
    /\ touching = NoTouch

NextSwipe ==
    \/ \E d \in Days, o \in Refs, x \in StartXs, y \in StartYs :
          HandleTouchStart(d, o, x, y)
    \/ \E d \in Days, o \in Refs, x \in MoveXs, y \in MoveYs :
          HandleTouchMove(d, o, x, y)
    \/ \E d \in Days, o \in Refs : HandleTouchEnd(d, o)
    \/ Tick
    \/ \E t \in BagToSet(timers) : TimerFire(t)
    \/ \E d \in Days, o \in Refs : ResetTaskSwipe(d, o)
    \/ \E d \in Days, o \in Refs, to \in Days : HandleMoveFromSwipe(d, o, to)
    \/ \E r \in Pending : StoreAccept(r)
    \/ \E r \in Pending : StoreReject(r)
    \/ \E r \in Pending : NetworkError(r)
    \/ \E r \in Pending : DeleteResolve(r)
    \/ \E r \in Pending : MoveResolve(r)
    \/ \E d \in Days, o \in Refs : ~PickerOpen /\ StartEditingTask(d, o)
    \/ \E d \in Days, o \in Refs, txt \in InputTexts : SaveTaskEdit(d, o, txt)
    \/ \E r \in Pending : RenameResolve(r)

SpecSwipe == InitSwipe /\ [][NextSwipe]_vars

\* The gestures and the deletes they lead to.  The callbacks of setTimeout
\* run once their delay has elapsed, and time does not stop.
NextSwipeDelete ==
    \/ \E d \in Days, o \in Refs, x \in StartXs, y \in StartYs :
          HandleTouchStart(d, o, x, y)
    \/ \E d \in Days, o \in Refs, x \in MoveXs, y \in MoveYs :
          HandleTouchMove(d, o, x, y)
    \/ \E d \in Days, o \in Refs : HandleTouchEnd(d, o)
    \/ Tick
    \/ \E t \in BagToSet(timers) : TimerFire(t)
    \/ \E d \in Days, o \in Refs : ResetTaskSwipe(d, o)
    \/ \E r \in Pending : StoreAccept(r)
    \/ \E r \in Pending : StoreReject(r)
    \/ \E r \in Pending : NetworkError(r)
    \/ \E r \in Pending : DeleteResolve(r)

SpecSwipeFair ==
    /\ InitSwipe
    /\ [][NextSwipeDelete]_vars
    /\ WF_vars(Tick)
    /\ WF_vars(\E t \in BagToSet(timers) : TimerFire(t))

\* The store of a board with two tasks in its first bucket.
TwoTasks ==
    << StoreTask(1, <<"a">>, 0), StoreTask(1, <<"a">>, 0) >>

\* The board loaded from that store, touched with up to MaxTouches fingers.
InitTouches ==
    /\ store = TwoTasks
    /\ heap = [k \in 1..2 |-> RowToTask(StoreRows(store, 1, 1)[k], k)]
    /\ days = [d \in Days |-> [tasks |-> IF d = 1 THEN << 1, 2 >> ELSE << >>]]
    /\ mounted = TRUE
    /\ fetched = [d \in Days |-> "ok"]
    /\ reqs = EmptyBag
    /\ budget = MaxSwipeOps
    /\ ev = Event("resolve", StoreAnswer(store, LoadRequest(NumDays)))
    /\ touchStartX = 0
    /\ touchStartY = 0
    /\ isSwiping = FALSE
    /\ timers = EmptyBag
    /\ touching = NoTouch

NextTouches ==
    \/ \E d \in Days, o \in Refs, x \in StartXs, y \in StartYs :
          HandleTouchStart(d, o, x, y)
    \/ \E d \in Days, o \in Refs, x \in StartXs, y \in StartYs :
          HandleNextTouchStart(d, o, x, y)
    \/ \E d \in Days, o \in Refs, x \in MoveXs, y \in MoveYs :
          HandleTouchMove(d, o, x, y)
    \/ \E d \in Days, o \in Refs : HandleTouchEnd(d, o)
    \/ \E d \in Days, o \in Refs : ResetTaskSwipe(d, o)

SpecTouches == InitTouches /\ [][NextTouches]_vars


View(t) == [id |-> t.id, description |-> t.description, completed |-> t.completed]

\* The eight bucket collections: per bucket, the tasks in order.
BoardOf(h, dys) ==
    [d \in Days |-> [i \in 1..Len(dys[d].tasks) |-> View(h[dys[d].tasks[i]])]]

Board == BoardOf(heap, days)

\* The places <<d, i>> of the board that hold a task with this id.
PlacesOf(b, id) ==
    UNION { { <<d, i>> : i \in { j \in 1..Len(b[d]) : b[d][j].id = id } } : d \in Days }

InBoard(b, id) == PlacesOf(b, id) # {}

\* The ids the board holds.
BoardIds(b) == UNION { { b[d][i].id : i \in 1..Len(b[d]) } : d \in Days }

\* A sequence of views without the tasks with this id.
Without(q, id) == SelectSeq(q, LAMBDA t : t.id # id)

Failures == {"rejected", "neterr"}

UserKinds == {"create", "toggle", "rename", "move", "delete"}

\* The handlers behind those requests.
UserCalls == {"addTask", "toggleTask", "saveTaskEdit", "moveTask", "deleteTask"}

\* The step resolves the awaited call r of a handler other than onMount.
Resolves(r) ==
    /\ ev'.op = "resolve"
    /\ ev'.kind = r.kind
    /\ ev'.status = r.status
    /\ reqs' = reqs (-) SetToBag({r})


\* ------------------------------------------------------------------ claims
\* C1: in every reachable state every task id occurs in at most one of the
\* bucket collections, and at most once in that collection.
C1_EachIdInOnePlace ==
    \A id \in BoardIds(Board) : Cardinality(PlacesOf(Board, id)) = 1


\* C2: a create, toggle, rename, move or delete whose store request fails
\* (network error or non-success status) leaves every bucket collection as
\* it was: neither the call of the handler, nor the store's handling of the
\* request, nor the step that handles the failure changes a bucket's tasks,
\* their order, descriptions or completed flags.
C2_FailureChangesNothing ==
    [][ /\ (/\ ev'.op = "resolve"
            /\ ev'.kind \in UserKinds
            /\ ev'.status \in Failures) => Board' = Board
        /\ ev'.op \in UserCalls \cup {"store"} => Board' = Board ]_vars

\* C2 witness: a delete of a task the board shows has failed with a network
\* error and the task is still shown.
C2_Witness ==
    /\ ev.op = "resolve"
    /\ ev.kind = "delete"
    /\ ev.status = "neterr"
    /\ InBoard(Board, ev.id)


\* The board agrees with the store: every task of the store is shown once,
\* in the store's bucket, with the store's text and completed flag, and the
\* board shows nothing else.
AgreesWithStore ==
    /\ \A k \in 1..Len(store) :
          ~store[k].deleted =>
             \E i \in 1..Len(Board[store[k].day]) :
                /\ PlacesOf(Board, NumToString(k)) = { <<store[k].day, i>> }
                /\ Board[store[k].day][i].description = store[k].text
                /\ Board[store[k].day][i].completed = ToBoolean(store[k].completed)
    /\ \A id \in BoardIds(Board) : StoreLookup(store, id) # 0

\* C3: after an initial load in which every bucket fetch succeeded, whenever
\* no store request is in flight the board agrees with the store.
C3_QuiescentBoardAgrees ==
    ((\A d \in Days : fetched[d] = "ok") /\ reqs = EmptyBag) => AgreesWithStore


\* C4: when the store confirms a delete of task t, t is in no bucket
\* collection afterwards: not at the step that handles the confirmation, and
\* not later, once the store has deleted t and the board has dropped it; and
\* no step of a delete other than the confirmation changes the board.
C4_ConfirmedDeleteRemoves ==
    [][ /\ (ev'.op = "resolve" /\ ev'.kind = "delete" /\ ev'.status = "ok")
            => ~InBoard(Board', ev'.id)
        /\ (ev'.kind = "delete" /\ ~(ev'.op = "resolve" /\ ev'.status = "ok"))
            => Board' = Board
        /\ \A k \in 1..Len(store) :
              (store[k].deleted /\ ~InBoard(Board, NumToString(k)))
                 => ~InBoard(Board', NumToString(k)) ]_vars

\* C5: the completed flag of a task of the board changes only at the step
\* that handles the store's confirmation of a toggle of that task, and that
\* step sets the flag on the task in whatever bucket holds it.
C5_ToggleAppliesWhereTaskLives ==
    [][ /\ \A id \in BoardIds(Board) \cap BoardIds(Board') :
              ({ Board[p[1]][p[2]].completed : p \in PlacesOf(Board, id) }
                 # { Board'[p[1]][p[2]].completed : p \in PlacesOf(Board', id) })
                 => (ev'.op = "resolve" /\ ev'.kind = "toggle"
                       /\ ev'.status = "ok" /\ ev'.id = id)
        /\ \A r \in Pending :
              (Resolves(r) /\ r.kind = "toggle" /\ r.status = "ok")
                 => \A p \in PlacesOf(Board', r.id) :
                       Board'[p[1]][p[2]].completed = r.val ]_vars


\* C6: creation is not optimistic.  The call of addTask and the store's
\* handling of the POST change no bucket collection; the step that handles a
\* success response appends exactly one task at the end of the requested
\* bucket, with the id the store returned, the trimmed description and
\* completed = false, and changes no other bucket; a failure appends nothing.
C6_CreateAppendsOnSuccessOnly ==
    [][ /\ (ev'.op = "addTask" \/ ev'.op = "store") => Board' = Board
        /\ \A r \in Pending :
              (Resolves(r) /\ r.kind = "create") =>
                 Board' =
                    IF r.status = "ok"
                    THEN [Board EXCEPT
                            ![r.day] = Append(@, [id |-> NumToString(r.newId),
                                                  description |-> r.text,
                                                  completed |-> FALSE])]
                    ELSE Board ]_vars

\* C6 witness: a create of " b " has been confirmed and the task is the last
\* of its bucket, after a task that was there before.
C6_Witness ==
    /\ ev.op = "resolve"
    /\ ev.kind = "create"
    /\ ev.status = "ok"
    /\ Len(Board[ev.day]) = 2
    /\ Board[ev.day][2].description = <<"b">>
    /\ ~Board[ev.day][2].completed

\* C7: the step that handles the confirmation of a move removes the task
\* from the source bucket and appends it as the last element of the
\* destination bucket, with the id, description and completed flag the board
\* showed for it before; the other tasks of both buckets keep their order.
C7_MoveKeepsTheTask ==
    [][ \A r \in Pending :
           (Resolves(r) /\ r.kind = "move" /\ r.status = "ok") =>
              /\ r.day # r.to
              /\ Board'[r.day] = Without(Board[r.day], r.id)
              /\ Len(Board'[r.to]) = Len(Board[r.to]) + 1
              /\ SubSeq(Board'[r.to], 1, Len(Board[r.to])) = Board[r.to]
              /\ Board'[r.to][Len(Board'[r.to])].id = r.id
              /\ \A p \in PlacesOf(Board, r.id) :
                    Board'[r.to][Len(Board'[r.to])] = Board[p[1]][p[2]] ]_vars

\* C8: a create or a rename whose text is empty after trimming issues no
\* store request and changes no bucket collection and no description.
C8_EmptyTextDoesNothing ==
    [][ (ev'.op \in {"addTask", "saveTaskEdit"} /\ Trim(ev'.text) = EmptyStr)
           => /\ reqs' = reqs
              /\ Board' = Board
              /\ \A o \in Refs : heap'[o].description = heap[o].description ]_vars

\* C8 witness: saveTaskEdit has run on a task of the board with a text of
\* blanks only.
C8_Witness ==
    /\ ev.op = "saveTaskEdit"
    /\ ev.text = <<Space>>
    /\ InBoard(Board, ev.id)

\* C9: moving a task to the bucket it is in issues no store request and
\* leaves every bucket collection unchanged.
C9_MoveToSameBucketDoesNothing ==
    [][ (ev'.op = "moveTask" /\ ev'.day = ev'.to)
           => (reqs' = reqs /\ Board' = Board) ]_vars

\* C9 witness: moveTask has run for a task of the board and its own bucket.
C9_Witness ==
    /\ ev.op = "moveTask"
    /\ ev.day = ev.to
    /\ \E p \in PlacesOf(Board, ev.id) : p[1] = ev.day

\* C10: when onMount's fetch of a bucket fails, with a network error or with
\* a non-success response, that bucket's collection is empty afterwards, and
\* the loop goes on to the next bucket.
C10_FailedFetchLeavesBucketEmpty ==
    [][ (ev'.op = "resolve" /\ ev'.kind = "load" /\ ev'.status \in Failures)
           => /\ Board'[ev'.day] = << >>
              /\ ev'.day < NumDays
                    => \E r \in BagToSet(reqs') :
                          r.kind = "load" /\ r.day = ev'.day + 1 ]_vars


\* The view of the tasks onMount builds from the rows of a GET payload.
RowsView(rows) ==
    [j \in 1..Len(rows) |->
        [id |-> NumToString(rows[j].id), description |-> rows[j].text,
         completed |-> ToBoolean(rows[j].completed)]]

\* C11: whatever fetches succeed or fail during the initial load, the fetch
\* of every bucket is eventually sent and settled; the step that handles a
\* successful fetch leaves the bucket with exactly the tasks of the payload,
\* in the payload's order; the step that handles a failed fetch changes no
\* other bucket.
C11_EveryBucketIsLoaded ==
    /\ <>(\A d \in Days : fetched[d] # "no")
    /\ [][ \A r \in Pending :
              (/\ r.kind = "load"
               /\ ev'.op = "resolve"
               /\ ev'.kind = "load"
               /\ ev'.day = r.day
               /\ ev'.status = r.status)
              => /\ r.status = "ok" => Board'[r.day] = RowsView(r.rows)
                 /\ \A d \in Days \ {r.day} : Board'[d] = Board[d] ]_vars

\* C11 witness: the fetch of the first bucket has failed and the last
\* bucket shows the task the store holds for it.
C11_Witness ==
    /\ fetched[1] = "failed"
    /\ fetched[NumDays] = "ok"
    /\ Len(Board[NumDays]) = 1
    /\ Board[NumDays][1].description = <<"a">>

\* C12: applying a confirmed result the board already reflects is a no-op.
\* The step that handles the confirmation of a move of a task the board
\* already shows in the destination and not in the source, of a delete of a
\* task the board no longer shows, or of a create whose id the board already
\* shows, leaves every bucket collection as it is.
C12_ReappliedResultIsNoOp ==
    [][ \A r \in Pending :
           (Resolves(r) /\ r.status = "ok") =>
              /\ (/\ r.kind = "move"
                  /\ InBoard(Board, r.id)
                  /\ \A p \in PlacesOf(Board, r.id) : p[1] = r.to /\ p[1] # r.day)
                 => Board' = Board
              /\ (r.kind = "delete" /\ ~InBoard(Board, r.id)) => Board' = Board
              /\ (r.kind = "create" /\ InBoard(Board, NumToString(r.newId)))
                 => Board' = Board ]_vars

\* The step is a run of handleTouchMove that tracks the finger: the task's
\* gesture is active, the task is not edited, and the gesture is locked
\* horizontal once the handler has decided.
TracksFinger ==
    /\ ev'.op = "handleTouchMove"
    /\ heap[ev'.obj].isSwipeActive
    /\ ~heap[ev'.obj].isEditing
    /\ isSwiping'

\* The offset, in fifths, with the resistance starting at the move threshold
\* for a leftward and at the delete threshold for a rightward displacement.
OffsetResistedFromMoveThreshold(deltaX) ==
    IF moveThreshold < deltaX /\ deltaX < deleteThreshold
    THEN Fifth * deltaX
    ELSE IF deltaX > 0
         THEN Fifth * deleteThreshold + (deltaX - deleteThreshold)
         ELSE Fifth * moveThreshold + (deltaX - moveThreshold)

\* C13, as stated: once the gesture is locked horizontal the offset equals
\* deltaX for every deltaX strictly between the move threshold (-80) and the
\* delete threshold (120), and threshold + (deltaX - threshold) * 0.2 outside
\* that range, the threshold being the move threshold for a leftward and the
\* delete threshold for a rightward displacement.
C13_OffsetResistedFromMoveThreshold ==
    [][ TracksFinger
           => heap'[ev'.obj].swipeX
                 = OffsetResistedFromMoveThreshold(ev'.deltaX) ]_vars

\* C13, amended: the range in which the offset equals deltaX reaches from
\* 1.5 times the move threshold (-120) to the delete threshold (120), both
\* included; outside it the offset is threshold + (deltaX - threshold) * 0.2,
\* the threshold being 1.5 times the move threshold for a leftward and the
\* delete threshold for a rightward displacement.
C13_OffsetResistedBeyondThresholds ==
    [][ TracksFinger
           => heap'[ev'.obj].swipeX =
                 IF 2 * ev'.deltaX >= 3 * moveThreshold
                    /\ ev'.deltaX <= deleteThreshold
                 THEN Fifth * ev'.deltaX
                 ELSE IF ev'.deltaX > 0
                      THEN Fifth * deleteThreshold
                              + (ev'.deltaX - deleteThreshold)
                      ELSE (Fifth * 3 * moveThreshold) \div 2
                              + (2 * ev'.deltaX - 3 * moveThreshold) \div 2 ]_vars

\* C13 witness: a locked gesture has moved 120 to the left, beyond the move
\* threshold and as far as 1.5 times the move threshold, and the offset is
\* -120.
C13_Witness ==
    /\ ev.op = "handleTouchMove"
    /\ ev.deltaX = -120
    /\ isSwiping
    /\ heap[ev.obj].isSwipeActive
    /\ heap[ev.obj].swipeX = Fifth * (-120)

\* The step is a run of handleTouchEnd that ends a gesture: the task's
\* gesture is active and the task is not edited.
EndsGesture ==
    /\ ev'.op = "handleTouchEnd"
    /\ heap[ev'.obj].isSwipeActive
    /\ ~heap[ev'.obj].isEditing

\* The callbacks that will delete through the task object o.
TimersOf(tm, o) == { t \in BagToSet(tm) : t.obj = o }

\* C14: the end of a locked gesture takes exactly one of three outcomes from
\* the final offset.  offset >= 120: a delete is pending and the offset is
\* 300; offset <= -80: the move picker is shown, the offset is -80 and no
\* delete is pending; otherwise: the offset is 0, the picker is closed and
\* no delete is pending.  After a move by deltaX = 130 the offset is 122 and
\* the outcome is the pending delete.
C14_EndTakesOneOutcome ==
    [][ (EndsGesture /\ isSwiping) =>
           LET o == ev'.obj
               offset == heap[o].swipeX
               scheduled == timers' # timers
           IN  /\ ~heap'[o].isSwipeActive
               /\ offset >= Fifth * 120
                    => /\ scheduled
                       /\ heap'[o].swipeX = Fifth * 300
                       /\ ~heap'[o].showMoveOptions
               /\ offset <= Fifth * (-80)
                    => /\ ~scheduled
                       /\ heap'[o].swipeX = Fifth * (-80)
                       /\ heap'[o].showMoveOptions
               /\ (offset < Fifth * 120 /\ offset > Fifth * (-80))
                    => /\ ~scheduled
                       /\ heap'[o].swipeX = 0
                       /\ ~heap'[o].showMoveOptions
               /\ (ev.op = "handleTouchMove" /\ ev.obj = o /\ ev.deltaX = 130)
                    => offset = Fifth * 122 /\ scheduled ]_vars

\* C14 witness: a gesture has ended with the delete outcome: the task is at
\* the off-screen offset and its delete is pending.
C14_Witness ==
    /\ ev.op = "handleTouchEnd"
    /\ heap[ev.obj].swipeX = Fifth * OffScreen
    /\ TimersOf(timers, ev.obj) # {}

\* C15: the horizontal lock is decided once per gesture, at the first move
\* displaced by more than 10 from the start.  A move with |deltaX| > 10 locks
\* the gesture when |deltaX| > |deltaY|; when it does not, the gesture is a
\* vertical scroll: the next move of the gesture neither locks it nor
\* changes the task's offset.
C15_LockDecidedOnce ==
    [][ (/\ ev'.op = "handleTouchMove"
         /\ heap[ev'.obj].isSwipeActive
         /\ ~heap[ev'.obj].isEditing) =>
           /\ (/\ ~isSwiping
               /\ Abs(ev'.deltaX) > LockDistance
               /\ Abs(ev'.deltaX) > Abs(ev'.deltaY)) => isSwiping'
           /\ (/\ ev.op = "handleTouchMove"
               /\ ev.obj = ev'.obj
               /\ ~isSwiping
               /\ Abs(ev.deltaX) > LockDistance
               /\ Abs(ev.deltaX) <= Abs(ev.deltaY))
              => (~isSwiping' /\ heap'[ev'.obj].swipeX = heap[ev'.obj].swipeX)
      ]_vars

\* The delete requests in flight.
Deletes(rq) == { r \in BagToSet(rq) : r.kind = "delete" }

\* C16: the DELETE of a swiped task is not sent by the end event: the end
\* of a gesture with the delete outcome schedules exactly one callback, with
\* the grace delay, and sends nothing; a DELETE is sent only by the run of a
\* callback whose delay has elapsed, which sends exactly one, for the task
\* and bucket of the gesture, and is spent; and every scheduled callback
\* eventually runs.
C16_DeleteAfterGraceDelay ==
    /\ [][ /\ ev'.op = "handleTouchEnd" => reqs' = reqs
           /\ (EndsGesture /\ heap[ev'.obj].swipeX >= Fifth * deleteThreshold)
                 => timers' = timers (+) SetToBag({[day |-> ev'.day,
                                                    obj |-> ev'.obj,
                                                    left |-> 200]})
           /\ (ev'.op = "handleTouchEnd"
                  /\ ~(EndsGesture /\ heap[ev'.obj].swipeX >= Fifth * deleteThreshold))
                 => timers' = timers
           /\ (\E r \in Deletes(reqs') :
                  r.status = "sent" /\ CopiesIn(r, reqs') > CopiesIn(r, reqs))
                 => /\ ev'.op = "timeout"
                    /\ \E t \in BagToSet(timers) :
                          /\ t.left = 0
                          /\ timers' = timers (-) SetToBag({t})
                          /\ \E r \in Deletes(reqs') :
                                /\ r.day = t.day
                                /\ r.id = heap[t.obj].id
                                /\ r.status = "sent"
                                /\ reqs' = reqs (+) SetToBag({r}) ]_vars
    /\ (timers # EmptyBag) ~> (ev.op = "timeout")

\* C16 witness: the callback of a swiped task has run and its DELETE is in
\* flight, the task still being on the board at the off-screen offset.
C16_Witness ==
    /\ ev.op = "timeout"
    /\ \E r \in Deletes(reqs) : r.id = ev.id /\ r.status = "sent"
    /\ \E p \in Rendered : heap[p[2]].id = ev.id
                            /\ heap[p[2]].swipeX = Fifth * OffScreen

\* C17: an explicit cancel leaves the task with offset 0, the move picker
\* closed, the gesture not active and no delete pending: no callback
\* scheduled by an earlier end event on the task is left to run.
C17_CancelClearsEverything ==
    [][ ev'.op = "resetTaskSwipe" =>
           /\ heap'[ev'.obj].swipeX = 0
           /\ ~heap'[ev'.obj].showMoveOptions
           /\ ~heap'[ev'.obj].isSwipeActive
           /\ TimersOf(timers', ev'.obj) = {} ]_vars

\* The task is at rest: offset 0, picker closed, gesture not active.
AtRest(t) == t.swipeX = 0 /\ ~t.showMoveOptions /\ ~t.isSwipeActive

\* C18: choosing a destination bucket in the move picker leaves the task at
\* rest and sends exactly one move request, for that task, from its bucket
\* to the chosen one; the step that handles the response, whatever it is,
\* leaves the gesture state as it was, and a confirmed move puts the task
\* into the destination at rest.
C18_PickedMoveResetsAndSendsOne ==
    [][ /\ ev'.op = "handleMoveFromSwipe" =>
              /\ AtRest(heap'[ev'.obj])
              /\ \E r \in BagToSet(reqs') :
                    /\ r.kind = "move"
                    /\ r.obj = ev'.obj
                    /\ r.id = ev'.id
                    /\ r.day = ev'.day
                    /\ r.to = ev'.to
                    /\ r.to # r.day
                    /\ r.status = "sent"
                    /\ reqs' = reqs (+) SetToBag({r})
        /\ \A r \in Pending :
              (Resolves(r) /\ r.kind = "move") =>
                 /\ \A p \in Rendered :
                       (\E d \in Days : \E i \in 1..Len(days'[d].tasks) :
                            days'[d].tasks[i] = p[2])
                          => /\ heap'[p[2]].swipeX = heap[p[2]].swipeX
                             /\ heap'[p[2]].showMoveOptions
                                   = heap[p[2]].showMoveOptions
                             /\ heap'[p[2]].isSwipeActive
                                   = heap[p[2]].isSwipeActive
                 /\ r.status = "ok" =>
                       AtRest(heap'[days'[r.to].tasks[Len(days'[r.to].tasks)]])
      ]_vars

\* C18 witness: a bucket was chosen in the picker of a task swiped left: the
\* task is at rest and its move request is in flight.
C18_Witness ==
    /\ ev.op = "handleMoveFromSwipe"
    /\ AtRest(heap[ev.obj])
    /\ \E r \in Pending : r.kind = "move" /\ r.obj = ev.obj /\ r.to = ev.to

\* The handlers of the touch events.
TouchHandlers == {"handleTouchStart", "handleTouchMove", "handleTouchEnd"}

\* C19: while a task is edited, the start, move and end events on it change
\* neither its offset nor its pending action and schedule no delete, also
\* when the edit began in the middle of a gesture; and when the edit ends
\* the task is left with no offset that the end of a gesture would turn
\* into a pending move or a pending delete.
C19_EditingSuppressesGestures ==
    [][ /\ (ev'.op \in TouchHandlers /\ heap[ev'.obj].isEditing) =>
              /\ heap'[ev'.obj].swipeX = heap[ev'.obj].swipeX
              /\ heap'[ev'.obj].showMoveOptions = heap[ev'.obj].showMoveOptions
              /\ heap'[ev'.obj].isSwipeActive = heap[ev'.obj].isSwipeActive
              /\ timers' = timers
        /\ \A p \in Rendered :
              (/\ heap[p[2]].isEditing
               /\ p[2] \in 1..Len(heap')
               /\ ~heap'[p[2]].isEditing
               /\ heap'[p[2]].id = heap[p[2]].id)
              => /\ heap'[p[2]].swipeX < Fifth * 120
                 /\ heap'[p[2]].swipeX > Fifth * (-80) ]_vars

\* C20: the leftward resistance starts at -120, 1.5 times the move
\* threshold.  For a locked gesture the offset equals deltaX for deltaX in
\* [-120, 120], 120 + (deltaX - 120) * 0.2 above 120 and
\* -120 + (deltaX + 120) * 0.2 below -120; and of two successive moves of a
\* locked gesture the one farther to the right has the greater offset, as
\* has a move farther to the right than any other displacement.
C20_ResistanceStartsAtOneAndAHalf ==
    [][ TracksFinger =>
           LET deltaX == ev'.deltaX
               offset == heap'[ev'.obj].swipeX
           IN  /\ (deltaX >= -120 /\ deltaX <= 120) => offset = Fifth * deltaX
               /\ deltaX > 120 => offset = Fifth * 120 + (deltaX - 120)
               /\ deltaX < -120 => offset = Fifth * (-120) + (deltaX + 120)
               /\ (ev.op = "handleTouchMove" /\ ev.obj = ev'.obj /\ isSwiping)
                    => /\ deltaX > ev.deltaX => offset > heap[ev'.obj].swipeX
                       /\ deltaX = ev.deltaX => offset = heap[ev'.obj].swipeX
               /\ \A a \in DeltaXs :
                     a < deltaX => Resisted(a) < offset ]_vars

\* C20 witness: a locked gesture has moved to 130 to the left of the start,
\* beyond 1.5 times the move threshold, and the offset is -122.
C20_Witness ==
    /\ ev.op = "handleTouchMove"
    /\ ev.deltaX = -130
    /\ isSwiping
    /\ heap[ev.obj].isSwipeActive
    /\ heap[ev.obj].swipeX = Fifth * (-122)

\* The fetch of bucket d has been sent: it is in flight or has resolved.
Requested(d) ==
    \/ fetched[d] # "no"
    \/ \E r \in Pending : r.kind = "load" /\ r.day = d

\* C21: during the initial load the fetches of the buckets run
\* concurrently: the request for a bucket is sent without waiting for the
\* response of another, so once onMount has started and for as long as a
\* fetch is in flight, the fetch of every bucket has been sent.
C21_FetchesRunConcurrently ==
    (mounted /\ \E r \in Pending : r.kind = "load")
        => \A d \in Days : Requested(d)

\* C22: a task stays in its bucket until a confirmed delete or a confirmed
\* move of that task removes it: a step after which a bucket no longer
\* holds an id it held handles the success response of a delete or of a
\* move of that id.  In particular the step that handles the response of the
\* bucket's initial fetch removes no task a confirmed create put there.
C22_OnlyDeleteAndMoveRemove ==
    [][ \A d \in Days : \A i \in 1..Len(Board[d]) :
           (\A j \in 1..Len(Board'[d]) : Board'[d][j].id # Board[d][i].id)
              => /\ ev'.op = "resolve"
                 /\ ev'.kind \in {"delete", "move"}
                 /\ ev'.status = "ok"
                 /\ ev'.id = Board[d][i].id ]_vars

\* C23: a gesture that never locked horizontal, a tap or a vertical scroll,
\* ends without scheduling a delete and without opening the move picker,
\* whatever offset the task carries from an earlier gesture.
C23_UnlockedGestureDoesNothing ==
    [][ (EndsGesture /\ ~isSwiping)
           => /\ timers' = timers
              /\ ~heap'[ev'.obj].showMoveOptions ]_vars

\* C25: once the DELETE of a swiped task has resolved, the task is absent
\* from the board after a success, and back at offset 0 with the picker
\* closed after a failure: the step that handles the response leaves no task
\* of that id on the board at the off-screen offset.
C25_ResolvedDeleteLeavesNoTaskOffScreen ==
    [][ \A r \in Pending :
           (Resolves(r) /\ r.kind = "delete") =>
              \A d \in Days : \A i \in 1..Len(days'[d].tasks) :
                 heap'[days'[d].tasks[i]].id = r.id
                    => /\ r.status # "ok"
                       /\ heap'[days'[d].tasks[i]].swipeX = 0
                       /\ ~heap'[days'[d].tasks[i]].showMoveOptions ]_vars

\* A finger lands on a task while a finger is on another task.
StartsDuringAnother ==
    /\ ev'.op = "handleTouchStart"
    /\ \E k \in 1..Len(touching) : touching[k].obj # ev'.obj

\* C24: gestures on different tasks do not interfere: when a gesture on
\* task B starts while a gesture on task A is in progress, A's later move
\* events still compute their displacement from A's own start position and
\* their lock decision from A's own lock state: for every position of the
\* finger the displacement and the lock decision are those they would have
\* been before B's start.
C24_GesturesDoNotInterfere ==
    [][ StartsDuringAnother =>
           \A x \in MoveXs, y \in MoveYs :
              /\ x - touchStartX' = x - touchStartX
              /\ y - touchStartY' = y - touchStartY
              /\ Locks(isSwiping', x - touchStartX', y - touchStartY')
                    = Locks(isSwiping, x - touchStartX, y - touchStartY) ]_vars

====
